---- MODULE Spec2Model ----
(***************************************************************************)
(* A model of synctree/subbranch.py: the SubBranch view over a keyed tree  *)
(* store, its synchronization operators, its two variants and its import   *)
(* pipeline.                                                               *)
(*                                                                         *)
(* Strings are sequences of one-character strings, so that startswith,     *)
(* endswith, split and join are computed character by character:           *)
(* "b/s/0" is <<"b", "/", "s", "/", "0">>.                                 *)
(***************************************************************************)
EXTENDS Integers, Sequences, FiniteSets, TLC

VARIABLES
    _nodes,     \* tree._nodes: key -> payload object (node.data)
    narrowed,   \* the SubBranchNarrow object constructed so far (or NoView)
    last,       \* what the last call of make did (ghost record of the call)
    pc,         \* position of the import run: idle, draining, merging,
                \* complete (before the completion hook) or done
    importer,   \* self.importer: how its resolve_duplicate answers, whether
                \* it has on_import_complete, and what its reader is
    _temp,      \* self._temp: the buffered fragments per identifier, in
                \* insertion order of the identifiers
    _index,     \* self._index: the next sequence number
    prepared,   \* the accumulator of the merge loop
    cursor,     \* <<i, j>>: the merge loop is at fragment j of the i-th identifier
    records,    \* ghost: the records read in this run and what became of each
    makes,      \* ghost: the calls of make of this run, in order
    start,      \* ghost: the store when the run started
    completed,  \* ghost: the calls of on_import_complete of this run, each
                \* with the number of calls of make issued before it
    source,     \* ghost: how often the reader's scoped record source was
                \* acquired and released
    failure     \* ghost: the call that raised out of the run ("" if none)

importvars ==
    <<pc, importer, _temp, _index, prepared, cursor, records, makes, start,
      completed, source, failure>>

vars == <<_nodes, narrowed, last, importvars>>

(***************************************************************************)
(* Bounds of the model.                                                    *)
(***************************************************************************)
MaxNarrowLen == 2      \* longest collection handed to SubBranchNarrow

MaxRecords == 3        \* most records the reader yields in one import run

(***************************************************************************)
(* Strings.                                                                *)
(***************************************************************************)
Range(s) == {s[i] : i \in 1..Len(s)}

startswith(s, p) == Len(p) <= Len(s) /\ SubSeq(s, 1, Len(p)) = p

endswith(s, p) == Len(p) <= Len(s) /\ SubSeq(s, Len(s) - Len(p) + 1, Len(s)) = p

\* position of the last occurrence of the delimiter d in s, 0 when there is none
LastDelim(s, d) ==
    LET hits == {i \in 1..Len(s) : startswith(SubSeq(s, i, Len(s)), d)}
    IN  IF hits = {} THEN 0 ELSE CHOOSE i \in hits : \A j \in hits : j <= i

\* s.split(d)[-1]
split_last(s, d) ==
    LET i == LastDelim(s, d)
    IN  IF i = 0 THEN s ELSE SubSeq(s, i + Len(d), Len(s))

RECURSIVE join(_, _)
\* d.join(segs)
join(d, segs) ==
    IF Len(segs) = 0 THEN <<>>
    ELSE IF Len(segs) = 1 THEN segs[1]
    ELSE segs[1] \o d \o join(d, Tail(segs))

UpperCase ==
    <<"A", "B", "C", "D", "E", "F", "G", "H", "I", "J", "K", "L", "M",
      "N", "O", "P", "Q", "R", "S", "T", "U", "V", "W", "X", "Y", "Z">>

LowerCase ==
    <<"a", "b", "c", "d", "e", "f", "g", "h", "i", "j", "k", "l", "m",
      "n", "o", "p", "q", "r", "s", "t", "u", "v", "w", "x", "y", "z">>

\* s.lower()
lower(s) ==
    [i \in 1..Len(s) |->
        IF \E n \in 1..26 : UpperCase[n] = s[i]
        THEN LowerCase[CHOOSE n \in 1..26 : UpperCase[n] = s[i]]
        ELSE s[i]]

RECURSIVE split(_, _)
\* s.split(c) for a one-character separator c: the list of the parts
split(s, c) ==
    LET hits == {i \in 1..Len(s) : s[i] = c}
    IN  IF hits = {} THEN <<s>>
        ELSE LET i == CHOOSE h \in hits : \A j \in hits : h <= j
             IN  <<SubSeq(s, 1, i - 1)>> \o split(SubSeq(s, i + 1, Len(s)), c)

RECURSIVE strip(_)
\* s.strip(): leading and trailing blanks removed
strip(s) ==
    IF Len(s) = 0 THEN s
    ELSE IF s[1] = " " THEN strip(Tail(s))
    ELSE IF s[Len(s)] = " " THEN strip(SubSeq(s, 1, Len(s) - 1))
    ELSE s

(***************************************************************************)
(* The tree: delimiter, key paths, names used by the model.                *)
(***************************************************************************)
path_delim == <<"/">>

keypath(segs) == join(path_delim, segs)

branchname == <<"b">>

SubNames == {<<"s">>, <<"t">>}

\* identifiers direct tree operations and make may use; <<"s">> ends with a
\* subbranch name
Ids == {<<"0">>, <<"s">>}

\* payload objects: the attributes an object was constructed with.  keys is
\* the set of attributes that are set; the others hold their empty value.
\* name is a string, tags a list, grp a set.
\* None is Python's None (a node without payload).
None == [none |-> TRUE, keys |-> {}, name |-> <<>>, tags |-> <<>>, grp |-> {}]

Obj(keys, name, tags, grp) ==
    [none |-> FALSE, keys |-> keys, name |-> name, tags |-> tags, grp |-> grp]

ObjX == Obj({"name"}, <<"x">>, <<>>, {})

ObjY == Obj({"name", "tags"}, <<"y">>, <<"a">>, {})

\* keys a direct tree operation may insert or delete: the subbranch's own
\* placeholder, children of both subbranches, and one deeper key
PlaceholderKeys == {keypath(<<branchname, <<"s">>>>)}

ChildKeys == {keypath(<<branchname, sb, id>>) : sb \in SubNames, id \in Ids}

DeepKeys == {keypath(<<branchname, <<"s">>, <<"0">>, <<"1">>>>)}

TreeKeys == PlaceholderKeys \cup ChildKeys \cup DeepKeys

(***************************************************************************)
(* Results of calls: a returned value or a raised exception.               *)
(***************************************************************************)
Return(v) == [raised |-> "", value |-> v]

Raise(e) == [raised |-> e, value |-> None]

(***************************************************************************)
(* SubBranch objects.  klass selects the class of the object; to_narrow is *)
(* the collection a SubBranchNarrow wraps (empty for the other classes).   *)
(***************************************************************************)
SubBranch(subbranchname) ==
    [klass |-> "SubBranch", subbranchname |-> subbranchname, to_narrow |-> <<>>]

SubBranchOff(subbranchname) ==
    [klass |-> "SubBranchOff", subbranchname |-> subbranchname, to_narrow |-> <<>>]

SubBranchNarrow(to_narrow, subbranchname) ==
    [klass |-> "SubBranchNarrow", subbranchname |-> subbranchname,
     to_narrow |-> to_narrow]

NoView == [klass |-> "", subbranchname |-> <<>>, to_narrow |-> <<>>]

BaseViews == {SubBranch(sb) : sb \in SubNames}

OffViews == {SubBranchOff(sb) : sb \in SubNames}

parent_keypath(self) == keypath(<<branchname, self.subbranchname>>)

\* the key get_objects and get_objects_force_all look an identifier up under
child_key(self, idnumber) ==
    join(path_delim, <<branchname, self.subbranchname, idnumber>>)

_idnumbers(self) ==
    {split_last(key, path_delim) :
        key \in {k \in DOMAIN _nodes :
                    /\ ~endswith(k, self.subbranchname)
                    /\ startswith(k, parent_keypath(self) \o path_delim)}}

\* idnumbers without the override of SubBranchNarrow
idnumbers_not_overridden(self) == _idnumbers(self)

idnumbers(self) ==
    IF self.klass = "SubBranchNarrow" THEN Range(self.to_narrow)
    ELSE _idnumbers(self)

\* tree.get_node(key) when the tree holds store: the node, or no node at all
get_node(store, key) ==
    IF key \in DOMAIN store THEN [isnode |-> TRUE, data |-> store[key]]
    ELSE [isnode |-> FALSE, data |-> None]

\* node.data; reading the attribute of no node raises AttributeError
data_of(node) == IF node.isnode THEN Return(node.data) ELSE Raise("AttributeError")

\* self.get(idnumber) when the tree holds store
\* get without its except clause
get_in_uncaught(store, self, idnumber) ==
    data_of(get_node(store, keypath(<<branchname, self.subbranchname, idnumber>>)))

get_in(store, self, idnumber) ==
    LET node_key == keypath(<<branchname, self.subbranchname, idnumber>>)
        r == data_of(get_node(store, node_key))
    IN  IF r.raised = "AttributeError" THEN Return(None) ELSE r

get(self, idnumber) == get_in(_nodes, self, idnumber)

(***************************************************************************)
(* Iteration.  A yielded object is identified by the node that holds it.   *)
(* The list of nodes is built before the first object is yielded, so a     *)
(* missing key raises KeyError and nothing is yielded.                     *)
(***************************************************************************)
Yield(objs) == [raised |-> "", yielded |-> objs]

RaiseIter(e) == [raised |-> e, yielded |-> {}]

objects_of(self, ids) ==
    IF \E key \in ids : child_key(self, key) \notin DOMAIN _nodes
    THEN RaiseIter("KeyError")
    ELSE Yield({[key |-> child_key(self, key), data |-> _nodes[child_key(self, key)]] :
                    key \in {k \in ids : ~_nodes[child_key(self, k)].none}})

get_objects(self) == objects_of(self, idnumbers(self))

get_objects_force_all(self) == objects_of(self, _idnumbers(self))

__iter__(self) ==
    IF self.klass \in {"SubBranchOff", "SubBranchNarrow"}
    THEN get_objects_force_all(self)
    ELSE get_objects(self)

(***************************************************************************)
(* find_all.                                                               *)
(***************************************************************************)
\* getattr(obj, a): the value of the attribute named a, with its type and
\* its truth value; AttributeError when obj has no such attribute
getattr(obj, a) ==
    IF a = <<"n", "a", "m", "e">> /\ "name" \in obj.keys
    THEN [raised |-> "", type |-> "str", str |-> obj.name,
          truthy |-> obj.name # <<>>]
    ELSE IF a = <<"t", "a", "g", "s">> /\ "tags" \in obj.keys
    THEN [raised |-> "", type |-> "list", str |-> <<>>,
          truthy |-> obj.tags # <<>>]
    ELSE IF a = <<"g", "r", "p">> /\ "grp" \in obj.keys
    THEN [raised |-> "", type |-> "set", str |-> <<>>,
          truthy |-> obj.grp # {}]
    ELSE [raised |-> "AttributeError", type |-> "", str |-> <<>>,
          truthy |-> FALSE]

\* what find_all returns: ret if ret else None
Found(objs) == [raised |-> "", isnone |-> objs = {}, objs |-> objs]

FindRaises(e) == [raised |-> e, isnone |-> FALSE, objs |-> {}]

find_all(self, search_string) ==
    LET parts == split(search_string, ":")
        objs == get_objects(self)
        a == strip(parts[1])
        v == strip(parts[2])
    IN  IF Len(parts) # 2 THEN FindRaises("ValueError")
        ELSE IF objs.raised # "" THEN FindRaises(objs.raised)
        ELSE IF \E o \in objs.yielded :
                    LET val == getattr(o.data, a)
                    IN  val.raised # "" \/ (val.truthy /\ val.type # "str")
        THEN FindRaises("AttributeError")
        ELSE Found({o \in objs.yielded :
                        LET val == getattr(o.data, a)
                        IN  val.truthy /\ startswith(lower(val.str), lower(v))})

(***************************************************************************)
(* Synchronization operators: the identifiers the generator yields.        *)
(***************************************************************************)
\* __sub__ that yields from self.idnumbers, forgetting the subtraction
__sub__no_subtraction(self, other) ==
    IF self.klass = "SubBranchOff" THEN {} ELSE idnumbers(self)

__sub__(self, other) ==
    IF self.klass = "SubBranchOff" THEN {}
    ELSE idnumbers(self) \ idnumbers(other)

\* __and__ without the override of SubBranchOff
__and__not_overridden(self, other) == idnumbers(self) \cap idnumbers(other)

__and__(self, other) ==
    IF self.klass = "SubBranchOff" THEN {}
    ELSE idnumbers(self) \cap idnumbers(other)

(***************************************************************************)
(* make, the store's insert and the importer's duplicate-resolution hook.  *)
(***************************************************************************)
Policies == {"keep", "update", "reject"}

\* attributes of kwargs written over those of obj
Update(obj, kwargs) ==
    [none |-> FALSE,
     keys |-> obj.keys \cup kwargs.keys,
     name |-> IF "name" \in kwargs.keys THEN kwargs.name ELSE obj.name,
     tags |-> IF "tags" \in kwargs.keys THEN kwargs.tags ELSE obj.tags,
     grp  |-> IF "grp" \in kwargs.keys THEN kwargs.grp ELSE obj.grp]

\* tree.new(branch, subbranch, idnumber, **kwargs) when the tree holds store: a new
\* node whose payload is constructed from kwargs; rejected when the key is
\* taken
tree_new(store, key, kwargs) ==
    IF key \in DOMAIN store
    THEN [raised |-> "Duplicated", value |-> None, nodes |-> store]
    ELSE [raised |-> "", value |-> kwargs,
          nodes |-> [k \in DOMAIN store \cup {key} |->
                        IF k = key THEN kwargs ELSE store[k]]]

\* resolve_duplicate whose update appends the new tags to the existing ones
resolve_duplicate_extends(policy, existing, kwargs) ==
    LET extended == [Update(existing, kwargs) EXCEPT
                        !.tags = IF "tags" \in kwargs.keys
                                 THEN existing.tags \o kwargs.tags
                                 ELSE existing.tags]
    IN  IF policy = "update" /\ ~existing.none
        THEN [ret |-> extended, obj |-> extended]
        ELSE IF policy = "keep"
        THEN [ret |-> existing, obj |-> existing]
        ELSE [ret |-> None, obj |-> existing]

\* importer.resolve_duplicate(existing, **kwargs): ret is the hook's result,
\* obj the state it leaves the existing object in
resolve_duplicate(policy, existing, kwargs) ==
    IF policy = "update" /\ ~existing.none
    THEN [ret |-> Update(existing, kwargs), obj |-> Update(existing, kwargs)]
    ELSE IF policy = "keep"
    THEN [ret |-> existing, obj |-> existing]
    ELSE [ret |-> None, obj |-> existing]

\* make that answers a duplicate with the existing object, asking no hook
make_no_hook(store, self, idnumber, kwargs, policy) ==
    LET key == keypath(<<branchname, self.subbranchname, idnumber>>)
        r == tree_new(store, key, kwargs)
    IN  IF r.raised = "Duplicated"
        THEN [nodes |-> store, ret |-> get_in(store, self, idnumber).value,
              hook |-> <<>>]
        ELSE [nodes |-> r.nodes, ret |-> r.value, hook |-> <<>>]

\* self.make(idnumber, **kwargs) when the tree holds store: the store it leaves,
\* what it returns, and the calls of the hook it made
make(store, self, idnumber, kwargs, policy) ==
    LET key == keypath(<<branchname, self.subbranchname, idnumber>>)
        r == tree_new(store, key, kwargs)
    IN  IF r.raised = "Duplicated"
        THEN LET existing == get_in(store, self, idnumber).value
                 h == resolve_duplicate(policy, existing, kwargs)
             IN  [nodes |-> [store EXCEPT ![key] = h.obj],
                  ret |-> h.ret,
                  hook |-> <<[existing |-> existing, kwargs |-> kwargs,
                              ret |-> h.ret]>>]
        ELSE [nodes |-> r.nodes, ret |-> r.value, hook |-> <<>>]

(***************************************************************************)
(* Direct operations on the tree and calls of make.                        *)
(***************************************************************************)
NoCall ==
    [op |-> "", self |-> NoView, idnumber |-> <<>>, kwargs |-> None,
     existed |-> FALSE, before |-> None, ret |-> None, hook |-> <<>>,
     repeats |-> FALSE]

EmptyTree == [k \in {} |-> None]

TreePayloads == {None, ObjX}

MakeKwargs == {ObjX, ObjY}

Collections == UNION {[1..n -> Ids] : n \in 0..MaxNarrowLen}

EmptyKwargs == Obj({}, <<>>, <<>>, {})

\* an importer whose duplicate-resolution hook follows policy, which has a
\* completion hook or not, and whose reader is a generator function
\* ("generator") or returns a context manager ("context")
Importer(policy, on_import_complete, reader) ==
    [resolve_duplicate |-> policy, on_import_complete |-> on_import_complete,
     reader |-> reader]

Idle ==
    /\ pc = "idle"
    /\ _temp = <<>>
    /\ prepared = EmptyKwargs
    /\ cursor = <<0, 0>>
    /\ records = <<>>
    /\ makes = <<>>
    /\ start = EmptyTree
    /\ completed = <<>>
    /\ source = [acquired |-> 0, released |-> 0]
    /\ failure = ""

Init ==
    /\ _nodes = EmptyTree
    /\ narrowed = NoView
    /\ last = NoCall
    /\ importer = Importer("keep", TRUE, "generator")
    /\ _index = 0
    /\ Idle

\* a node is inserted into the tree directly
TreeInsert(key, data) ==
    /\ key \notin DOMAIN _nodes
    /\ _nodes' = [k \in DOMAIN _nodes \cup {key} |-> IF k = key THEN data ELSE _nodes[k]]
    /\ last' = NoCall
    /\ UNCHANGED <<narrowed, importvars>>

\* a node is deleted from the tree directly
TreeDelete(key) ==
    /\ key \in DOMAIN _nodes
    /\ _nodes' = [k \in DOMAIN _nodes \ {key} |-> _nodes[k]]
    /\ last' = NoCall
    /\ UNCHANGED <<narrowed, importvars>>

\* SubBranchNarrow(to_narrow)(branch, subbranchname, importer)
ConstructNarrow(to_narrow, subbranchname) ==
    /\ narrowed' = SubBranchNarrow(to_narrow, subbranchname)
    /\ last' = NoCall
    /\ UNCHANGED <<_nodes, importvars>>

\* self.make(idnumber, **kwargs) is called on a subbranch whose importer
\* resolves duplicates by policy
MakeCall(self, idnumber, kwargs, policy) ==
    LET m == make(_nodes, self, idnumber, kwargs, policy)
        key == keypath(<<branchname, self.subbranchname, idnumber>>)
    IN  /\ _nodes' = m.nodes
        /\ last' = [op |-> "make", self |-> self, idnumber |-> idnumber,
                    kwargs |-> kwargs,
                    existed |-> key \in DOMAIN _nodes,
                    before |-> IF key \in DOMAIN _nodes THEN _nodes[key] ELSE None,
                    ret |-> m.ret, hook |-> m.hook,
                    \* the call before this one was the same call, on a
                    \* fresh identifier
                    repeats |-> /\ last.op = "make"
                                /\ ~last.existed
                                /\ last.self = self
                                /\ last.idnumber = idnumber
                                /\ last.kwargs = kwargs]
        /\ UNCHANGED <<narrowed, importvars>>

Next ==
    \/ \E key \in TreeKeys, data \in TreePayloads : TreeInsert(key, data)
    \/ \E key \in TreeKeys : TreeDelete(key)
    \/ \E c \in Collections, sb \in SubNames : ConstructNarrow(c, sb)

Spec == Init /\ [][Next]_vars

\* the tree is mutated directly and through make
NextMake ==
    \/ \E key \in ChildKeys, data \in TreePayloads : TreeInsert(key, data)
    \/ \E key \in ChildKeys : TreeDelete(key)
    \/ \E self \in BaseViews, id \in Ids, kw \in MakeKwargs, p \in Policies :
            MakeCall(self, id, kw, p)

MakeSpec == Init /\ [][NextMake]_vars

\* the objects find_all is tried on: three names, one of them in lower case,
\* and an object constructed without a name
ObjJohn == Obj({"name"}, <<"J", "o", "h", "n">>, <<>>, {})

ObjJoanna == Obj({"name"}, <<"j", "o", "a", "n", "n", "a">>, <<>>, {})

ObjMark == Obj({"name"}, <<"M", "a", "r", "k">>, <<>>, {})

ObjNoName == Obj({"tags"}, <<>>, <<"a">>, {})

FindPayloads == {None, ObjJohn, ObjJoanna, ObjMark, ObjNoName}

FindKeys ==
    {keypath(<<branchname, <<"s">>, id>>) :
        id \in {<<"0">>, <<"1">>, <<"2">>, <<"s">>}}
        \cup DeepKeys

\* the queries tried: attribute is the name of the attribute asked for and
\* value the text to match, as they stand in search_string
Queries ==
    {[search_string |-> <<"n", "a", "m", "e", ":", " ", "j", "o">>,
      attribute |-> "name", value |-> <<"j", "o">>],
     [search_string |-> <<"n", "a", "m", "e", " ", ":", "O", "H">>,
      attribute |-> "name", value |-> <<"O", "H">>],
     [search_string |-> <<" ", "n", "a", "m", "e", ":", "M", "A", " ">>,
      attribute |-> "name", value |-> <<"M", "A">>]}

\* the tree holds named objects under one subbranch
NextFind ==
    \/ \E key \in FindKeys, data \in FindPayloads : TreeInsert(key, data)
    \/ \E key \in FindKeys : TreeDelete(key)

FindSpec == Init /\ [][NextFind]_vars

(***************************************************************************)
(* The import pipeline: __pos__ and process_kwargs.                        *)
(*                                                                         *)
(* A record is a mapping of attribute names to values: keys is the set of  *)
(* names it carries.  tags holds a list, grp a set, name and idnumber      *)
(* scalars.                                                                *)
(***************************************************************************)
Kw(keys, idnumber, name, tags, grp) ==
    [none |-> FALSE, keys |-> keys, idnumber |-> idnumber, name |-> name,
     tags |-> tags, grp |-> grp]

KwNone ==
    [none |-> TRUE, keys |-> {}, idnumber |-> <<>>, name |-> <<>>,
     tags |-> <<>>, grp |-> {}]

\* the records the reader may yield
RawRecords ==
    {Kw({"name"}, <<>>, <<"x">>, <<>>, {}),
     Kw({"idnumber", "name"}, <<"0">>, <<"x">>, <<>>, {}),
     Kw({"tags"}, <<>>, <<>>, <<"a">>, {}),
     Kw({"idnumber", "tags"}, <<"0">>, <<>>, <<"a">>, {}),
     Kw({"tags", "name"}, <<>>, <<"y">>, <<"b">>, {}),
     Kw({"idnumber", "tags", "name"}, <<"0">>, <<"y">>, <<"b">>, {}),
     Kw({"idnumber", "grp", "name"}, <<"0">>, <<"x">>, <<>>, {"a"}),
     Kw({"idnumber", "grp"}, <<"0">>, <<>>, <<>>, {"b"}),
     Kw({"skip"}, <<>>, <<>>, <<>>, {})}

\* the subbranch the import runs on
importing == SubBranch(<<"s">>)

\* the stores an import run may start from
InitialStores ==
    {EmptyTree,
     [k \in {keypath(<<branchname, <<"s">>, <<"0">>>>)} |-> ObjX]}

Digits == <<"0", "1", "2", "3", "4", "5", "6", "7", "8", "9">>

RECURSIVE str(_)
\* str(n) of a natural number
str(n) ==
    IF n < 10 THEN <<Digits[n + 1]>>
    ELSE str(n \div 10) \o <<Digits[(n % 10) + 1]>>

\* importer.kwargs_preprocessor(kwargs_in): None for a record to skip
kwargs_preprocessor(kwargs_in) ==
    IF "skip" \in kwargs_in.keys THEN KwNone ELSE kwargs_in

\* isinstance(kwargs[k], list) and isinstance(kwargs[k], set)
is_list(k) == k = "tags"

is_set(k) == k = "grp"

\* kwargs once del kwargs['idnumber'] has run: the attributes of the object
without_idnumber(kwargs) ==
    Obj(kwargs.keys \ {"idnumber"}, kwargs.name, kwargs.tags, kwargs.grp)

\* temp_append with the fragment put in front of the identifier's list
temp_insert_first(temp, idnumber, kwargs) ==
    IF \E i \in 1..Len(temp) : temp[i].idnumber = idnumber
    THEN [i \in 1..Len(temp) |->
            IF temp[i].idnumber = idnumber
            THEN [temp[i] EXCEPT !.items = <<kwargs>> \o @]
            ELSE temp[i]]
    ELSE Append(temp, [idnumber |-> idnumber, items |-> <<kwargs>>])

\* self._temp[idnumber].append(kwargs) on a defaultdict(list)
temp_append(temp, idnumber, kwargs) ==
    IF \E i \in 1..Len(temp) : temp[i].idnumber = idnumber
    THEN [i \in 1..Len(temp) |->
            IF temp[i].idnumber = idnumber
            THEN [temp[i] EXCEPT !.items = Append(@, kwargs)]
            ELSE temp[i]]
    ELSE Append(temp, [idnumber |-> idnumber, items |-> <<kwargs>>])

MakeRecord(store, self, idnumber, kwargs, phase) ==
    [idnumber |-> idnumber, kwargs |-> kwargs, phase |-> phase,
     existed |-> keypath(<<branchname, self.subbranchname, idnumber>>) \in DOMAIN store]

\* process_kwargs that hands out a sequence number without advancing _index
process_kwargs_no_increment(store, temp, index, self, kwargs_in, policy) ==
    LET kwargs == kwargs_preprocessor(kwargs_in)
        has_list_value == \E k \in kwargs.keys : is_list(k) \/ is_set(k)
        idnumber == IF "idnumber" \notin kwargs.keys THEN str(index)
                    ELSE kwargs.idnumber
        attrs == without_idnumber(kwargs)
    IN  IF kwargs.none
        THEN [nodes |-> store, temp |-> temp, index |-> index,
              outcome |-> "skip", idnumber |-> <<>>, calls |-> <<>>]
        ELSE IF has_list_value
        THEN [nodes |-> store, temp |-> temp_append(temp, idnumber, attrs),
              index |-> index, outcome |-> "buffer", idnumber |-> idnumber,
              calls |-> <<>>]
        ELSE [nodes |-> make(store, self, idnumber, attrs, policy).nodes,
              temp |-> temp, index |-> index, outcome |-> "make",
              idnumber |-> idnumber,
              calls |-> <<MakeRecord(store, self, idnumber, attrs, "draining")>>]

\* self.process_kwargs(**kwargs_in): the store, _temp and _index it leaves,
\* what became of the record, and the calls of make it issued
process_kwargs(store, temp, index, self, kwargs_in, policy) ==
    LET kwargs == kwargs_preprocessor(kwargs_in)
        has_list_value == \E k \in kwargs.keys : is_list(k) \/ is_set(k)
        idnumber == IF "idnumber" \notin kwargs.keys THEN str(index)
                    ELSE kwargs.idnumber
        index2 == IF "idnumber" \notin kwargs.keys THEN index + 1 ELSE index
        attrs == without_idnumber(kwargs)
    IN  IF kwargs.none
        THEN [nodes |-> store, temp |-> temp, index |-> index,
              outcome |-> "skip", idnumber |-> <<>>, calls |-> <<>>]
        ELSE IF has_list_value
        THEN [nodes |-> store, temp |-> temp_append(temp, idnumber, attrs),
              index |-> index2, outcome |-> "buffer", idnumber |-> idnumber,
              calls |-> <<>>]
        ELSE [nodes |-> make(store, self, idnumber, attrs, policy).nodes,
              temp |-> temp, index |-> index2, outcome |-> "make",
              idnumber |-> idnumber,
              calls |-> <<MakeRecord(store, self, idnumber, attrs, "draining")>>]

\* one pass of the body of "for item in kwargs_list", up to prepared.update:
\* the accumulator it leaves and the item with its lists and sets deleted
merge_item(acc, item) ==
    LET acc1 == IF "tags" \in item.keys
                THEN [acc EXCEPT !.keys = @ \cup {"tags"}, !.tags = @ \o item.tags]
                ELSE acc
        acc2 == IF "grp" \in item.keys
                THEN [acc1 EXCEPT !.keys = @ \cup {"grp"}, !.grp = @ \cup item.grp]
                ELSE acc1
        rest == Obj({k \in item.keys : ~is_list(k) /\ ~is_set(k)}, item.name,
                    <<>>, {})
    IN  [prepared |-> Update(acc2, rest), item |-> rest]

\* the importers a run is checked with: every pair of choices of the hook's
\* answer, the presence of on_import_complete and the kind of reader is
\* in one of them.  A hook that rejects leaves the store as one that keeps,
\* and __pos__ ignores what make returns.
Importers ==
    {Importer("keep", TRUE, "generator"), Importer("keep", FALSE, "context"),
     Importer("update", TRUE, "context"), Importer("update", FALSE, "generator")}

InitImport ==
    /\ _nodes \in InitialStores
    /\ narrowed = NoView
    /\ last = NoCall
    /\ importer \in Importers
    /\ _index \in {0, 1}
    /\ Idle

\* __pos__ begins: lines 123-124, and the record source is obtained; a
\* context manager is entered (line 132)
StartImport ==
    /\ pc = "idle"
    /\ pc' = "draining"
    /\ _temp' = <<>>
    /\ _index' = 0
    /\ start' = _nodes
    /\ source' = IF importer.reader = "context"
                 THEN [source EXCEPT !.acquired = @ + 1]
                 ELSE source
    /\ UNCHANGED <<_nodes, narrowed, last, importer, prepared, cursor, records,
                   makes, completed, failure>>

\* __pos__ begins, and entering the context manager raises: nothing is
\* acquired and the run is over
AcquireFails ==
    /\ pc = "idle"
    /\ importer.reader = "context"
    /\ pc' = "failed"
    /\ failure' = "reader"
    /\ _temp' = <<>>
    /\ _index' = 0
    /\ start' = _nodes
    /\ UNCHANGED <<_nodes, narrowed, last, importer, prepared, cursor, records,
                   makes, completed, source>>

\* leaving the with block of line 132, normally or by an exception
release(src, imp) ==
    IF imp.reader = "context" THEN [src EXCEPT !.released = @ + 1] ELSE src

\* the reader yields kwargs_in and process_kwargs handles it
ProcessRecord(kwargs_in) ==
    /\ pc = "draining"
    /\ Len(records) < MaxRecords
    /\ LET r == process_kwargs(_nodes, _temp, _index, importing, kwargs_in,
                               importer.resolve_duplicate)
       IN  /\ _nodes' = r.nodes
           /\ _temp' = r.temp
           /\ _index' = r.index
           /\ records' = Append(records, [raw |-> kwargs_in, outcome |-> r.outcome,
                                          idnumber |-> r.idnumber])
           /\ makes' = makes \o r.calls
    /\ UNCHANGED <<narrowed, last, pc, importer, prepared, cursor, start,
                   completed, source, failure>>

\* ProcessRecordFails with the record source entered and left by hand, with
\* no with block: the exception passes the release by
ProcessRecordFails_not_released(kwargs_in, where) ==
    /\ pc = "draining"
    /\ Len(records) < MaxRecords
    /\ LET r == process_kwargs(_nodes, _temp, _index, importing, kwargs_in,
                               importer.resolve_duplicate)
       IN  IF where = "kwargs_preprocessor"
           THEN /\ records' = Append(records, [raw |-> kwargs_in,
                                    outcome |-> "preprocessor_raised",
                                    idnumber |-> <<>>])
                /\ UNCHANGED <<_index, makes>>
           ELSE /\ r.outcome = "make"
                /\ (where = "resolve_duplicate") = r.calls[1].existed
                /\ records' = Append(records, [raw |-> kwargs_in,
                                    outcome |-> "make_raised",
                                    idnumber |-> r.idnumber])
                /\ _index' = r.index
                /\ makes' = makes \o r.calls
    /\ pc' = "failed"
    /\ failure' = where
    /\ UNCHANGED <<_nodes, narrowed, last, importer, _temp, prepared, cursor,
                   start, completed, source>>

\* the reader yields kwargs_in and process_kwargs raises: where names the
\* call that raised, the preprocessing hook, tree.new inside make, or
\* the duplicate-resolution hook inside make.  The exception leaves the for
\* loop, the with block (which releases) and __pos__.
ProcessRecordFails(kwargs_in, where) ==
    /\ pc = "draining"
    /\ Len(records) < MaxRecords
    /\ LET r == process_kwargs(_nodes, _temp, _index, importing, kwargs_in,
                               importer.resolve_duplicate)
       IN  IF where = "kwargs_preprocessor"
           THEN /\ records' = Append(records, [raw |-> kwargs_in,
                                    outcome |-> "preprocessor_raised",
                                    idnumber |-> <<>>])
                /\ UNCHANGED <<_index, makes>>
           ELSE /\ r.outcome = "make"
                /\ (where = "resolve_duplicate") = r.calls[1].existed
                /\ records' = Append(records, [raw |-> kwargs_in,
                                    outcome |-> "make_raised",
                                    idnumber |-> r.idnumber])
                /\ _index' = r.index
                /\ makes' = makes \o r.calls
    /\ pc' = "failed"
    /\ failure' = where
    /\ source' = release(source, importer)
    /\ UNCHANGED <<_nodes, narrowed, last, importer, _temp, prepared, cursor,
                   start, completed>>

\* the reader itself raises while it is iterated
ReaderFails ==
    /\ pc = "draining"
    /\ pc' = "failed"
    /\ failure' = "reader"
    /\ source' = release(source, importer)
    /\ UNCHANGED <<_nodes, narrowed, last, importer, _temp, _index, prepared,
                   cursor, records, makes, start, completed>>

\* ReaderExhausted with the completion hook called as soon as the reader is
\* exhausted, before the buffered identifiers are merged
ReaderExhausted_calls_hook ==
    /\ pc = "draining"
    /\ IF Len(_temp) > 0
       THEN pc' = "merging" /\ cursor' = <<1, 1>>
       ELSE pc' = "complete" /\ UNCHANGED cursor
    /\ prepared' = EmptyKwargs
    /\ source' = release(source, importer)
    /\ completed' = IF importer.on_import_complete
                    THEN Append(completed, Len(makes))
                    ELSE completed
    /\ UNCHANGED <<_nodes, narrowed, last, importer, _temp, _index, records,
                   makes, start, failure>>

\* the reader is exhausted: the merge loop begins if anything was buffered
ReaderExhausted ==
    /\ pc = "draining"
    /\ IF Len(_temp) > 0
       THEN pc' = "merging" /\ cursor' = <<1, 1>>
       ELSE pc' = "complete" /\ UNCHANGED cursor
    /\ prepared' = EmptyKwargs
    /\ source' = release(source, importer)
    /\ UNCHANGED <<_nodes, narrowed, last, importer, _temp, _index, records,
                   makes, start, completed, failure>>

\* one pass of the body of "for item in kwargs_list": lines 140-155
MergeItem ==
    /\ pc = "merging"
    /\ LET i == cursor[1]
           j == cursor[2]
           idnumber == _temp[i].idnumber
           r == merge_item(prepared, _temp[i].items[j])
           m == make(_nodes, importing, idnumber, r.prepared,
                     importer.resolve_duplicate)
       IN  /\ _temp' = [_temp EXCEPT ![i].items[j] = r.item]
           /\ _nodes' = m.nodes
           /\ makes' = Append(makes, MakeRecord(_nodes, importing, idnumber,
                                                r.prepared, "merging"))
           /\ IF j < Len(_temp[i].items)
              THEN /\ cursor' = <<i, j + 1>>
                   /\ prepared' = r.prepared
                   /\ pc' = "merging"
              ELSE IF i < Len(_temp)
              THEN /\ cursor' = <<i + 1, 1>>
                   /\ prepared' = EmptyKwargs
                   /\ pc' = "merging"
              ELSE /\ cursor' = <<0, 0>>
                   /\ prepared' = r.prepared
                   /\ pc' = "complete"
    /\ UNCHANGED <<narrowed, last, importer, _index, records, start, completed,
                   source, failure>>

\* MergeItemFails with the exception caught around make: the loop goes on
\* to the next fragment
MergeItemFails_swallowed(where) ==
    /\ pc = "merging"
    /\ LET i == cursor[1]
           j == cursor[2]
           idnumber == _temp[i].idnumber
           r == merge_item(prepared, _temp[i].items[j])
           call == MakeRecord(_nodes, importing, idnumber, r.prepared, "merging")
       IN  /\ (where = "resolve_duplicate") = call.existed
           /\ _temp' = [_temp EXCEPT ![i].items[j] = r.item]
           /\ makes' = Append(makes, call)
           /\ IF j < Len(_temp[i].items)
              THEN /\ cursor' = <<i, j + 1>>
                   /\ prepared' = r.prepared
                   /\ pc' = "merging"
              ELSE IF i < Len(_temp)
              THEN /\ cursor' = <<i + 1, 1>>
                   /\ prepared' = EmptyKwargs
                   /\ pc' = "merging"
              ELSE /\ cursor' = <<0, 0>>
                   /\ prepared' = r.prepared
                   /\ pc' = "complete"
    /\ failure' = where
    /\ UNCHANGED <<_nodes, narrowed, last, importer, _index, records,
                   start, completed, source>>

\* one pass of the body of "for item in kwargs_list" in which make raises,
\* in tree.new or in the duplicate-resolution hook: the item is merged, the
\* exception leaves __pos__
MergeItemFails(where) ==
    /\ pc = "merging"
    /\ LET i == cursor[1]
           j == cursor[2]
           idnumber == _temp[i].idnumber
           r == merge_item(prepared, _temp[i].items[j])
           call == MakeRecord(_nodes, importing, idnumber, r.prepared, "merging")
       IN  /\ (where = "resolve_duplicate") = call.existed
           /\ _temp' = [_temp EXCEPT ![i].items[j] = r.item]
           /\ prepared' = r.prepared
           /\ makes' = Append(makes, call)
    /\ pc' = "failed"
    /\ failure' = where
    /\ UNCHANGED <<_nodes, narrowed, last, importer, _index, cursor, records,
                   start, completed, source>>

\* lines 157-158: the completion hook is called if the importer has one,
\* and __pos__ returns
OnImportComplete ==
    /\ pc = "complete"
    /\ pc' = "done"
    /\ completed' = IF importer.on_import_complete
                    THEN Append(completed, Len(makes))
                    ELSE completed
    /\ UNCHANGED <<_nodes, narrowed, last, importer, _temp, _index, prepared,
                   cursor, records, makes, start, source, failure>>

FailingCalls == {"kwargs_preprocessor", "make", "resolve_duplicate"}

NextImport ==
    \/ StartImport
    \/ AcquireFails
    \/ \E kwargs_in \in RawRecords : ProcessRecord(kwargs_in)
    \/ \E kwargs_in \in RawRecords, where \in FailingCalls :
            ProcessRecordFails(kwargs_in, where)
    \/ ReaderFails
    \/ ReaderExhausted
    \/ MergeItem
    \/ \E where \in FailingCalls \ {"kwargs_preprocessor"} : MergeItemFails(where)
    \/ OnImportComplete

ImportSpec == InitImport /\ [][NextImport]_vars

(***************************************************************************)
(* Properties of the read path and of the synchronization operators,       *)
(* checked under Spec.                                                     *)
(***************************************************************************)
AllViews == BaseViews \cup OffViews \cup ({narrowed} \ {NoView})

\* the keys of the tree under the subbranch's parent key path, its own key
\* excepted
KeysUnder(self) ==
    {k \in DOMAIN _nodes :
        /\ startswith(k, parent_keypath(self) \o path_delim)
        /\ k # parent_keypath(self)}

\* C1: the idnumbers of a base subbranch are exactly the trailing segments
\* of the keys of the tree that start with the parent key path plus
\* delimiter and are not the subbranch's own key.
C1_IdnumbersAreAllChildren ==
    \A self \in BaseViews :
        idnumbers(self) = {split_last(k, path_delim) : k \in KeysUnder(self)}

\* C2: Difference(A,B), Difference(B,A) and Intersection(A,B) are pairwise
\* disjoint and their union is idnumbers(A) \cup idnumbers(B), for base
\* subbranches on different paths.
C2_DiffsAndIntersectionPartition ==
    \A A \in BaseViews, B \in BaseViews :
        A # B =>
            /\ __sub__(A, B) \cap __sub__(B, A) = {}
            /\ __sub__(A, B) \cap __and__(A, B) = {}
            /\ __sub__(B, A) \cap __and__(A, B) = {}
            /\ __sub__(A, B) \cup __sub__(B, A) \cup __and__(A, B)
                    = idnumbers(A) \cup idnumbers(B)

C2_Witness ==
    \E A \in BaseViews, B \in BaseViews :
        /\ A # B
        /\ __sub__(A, B) # {}
        /\ __sub__(B, A) # {}
        /\ __and__(A, B) # {}

\* C7: for an excluded-variant subbranch X and any subbranch Y,
\* Difference(X, Y) and Intersection(X, Y) yield no identifier.
C7_ExcludedYieldsNothing ==
    \A X \in OffViews, Y \in AllViews :
        __sub__(X, Y) = {} /\ __and__(X, Y) = {}

C7_Witness ==
    \E X \in OffViews, Y \in AllViews :
        /\ idnumbers(X) \ idnumbers(Y) # {}
        /\ idnumbers(X) \cap idnumbers(Y) # {}

\* C8: the idnumbers of a narrowed subbranch are the identifiers it was
\* constructed with, whatever the store holds under its path.
C8_NarrowedIdnumbersFixed ==
    narrowed # NoView => idnumbers(narrowed) = Range(narrowed.to_narrow)

C8_Witness ==
    /\ narrowed # NoView
    /\ Range(narrowed.to_narrow) # {}
    /\ _idnumbers(narrowed) \ Range(narrowed.to_narrow) # {}
    /\ Range(narrowed.to_narrow) \ _idnumbers(narrowed) # {}

\* C9: iterating a narrowed subbranch yields only objects whose identifier
\* belongs to the collection it was constructed with.
C9_NarrowedIterationRestricted ==
    narrowed # NoView =>
        \A o \in __iter__(narrowed).yielded :
            \E id \in Range(narrowed.to_narrow) : o.key = child_key(narrowed, id)

\* C10: get returns the payload of the node at branch/subbranch/identifier
\* when the node exists, and returns None without raising when it does not.
C10_GetPayloadOrNone ==
    \A self \in AllViews, id \in Ids \cup {<<"9">>} :
        LET key == keypath(<<branchname, self.subbranchname, id>>)
        IN  IF key \in DOMAIN _nodes
            THEN get(self, id) = Return(_nodes[key])
            ELSE get(self, id) = Return(None)

C10_Witness ==
    \E self \in BaseViews, id1 \in Ids, id2 \in Ids :
        /\ keypath(<<branchname, self.subbranchname, id1>>) \in DOMAIN _nodes
        /\ ~get(self, id1).value.none
        /\ keypath(<<branchname, self.subbranchname, id2>>) \notin DOMAIN _nodes
        /\ get(self, id2) = Return(None)

(***************************************************************************)
(* Properties of make, checked under MakeSpec.                             *)
(***************************************************************************)
\* C5: make on an identifier whose node exists invokes the
\* duplicate-resolution hook exactly once, with the existing payload and
\* the new attributes, and returns the hook's result; on a fresh identifier
\* the hook is not invoked.
C5_DuplicateHookOnce ==
    last.op = "make" =>
        IF last.existed
        THEN /\ Len(last.hook) = 1
             /\ last.hook[1].existing = last.before
             /\ last.hook[1].kwargs = last.kwargs
             /\ last.ret = last.hook[1].ret
        ELSE last.hook = <<>>

C5_Witness ==
    /\ last.op = "make"
    /\ last.existed
    /\ ~last.before.none
    /\ Len(last.hook) = 1
    /\ last.ret # last.before
    /\ last.ret # last.kwargs

RunMerged == pc \in {"complete", "done"}

\* the fragments buffered for idnumber in this run, in arrival order
Fragments(idnumber) ==
    LET buffered == SelectSeq(records,
                        LAMBDA r : r.outcome = "buffer" /\ r.idnumber = idnumber)
    IN  [n \in 1..Len(buffered) |->
            without_idnumber(kwargs_preprocessor(buffered[n].raw))]

BufferedIds == {_temp[i].idnumber : i \in 1..Len(_temp)}

\* identifiers of this run that were only ever buffered
OnlyBuffered(idnumber) ==
    \A n \in 1..Len(records) :
        records[n].idnumber = idnumber => records[n].outcome = "buffer"

RECURSIVE ConcatTags(_)
ConcatTags(frags) ==
    IF Len(frags) = 0 THEN <<>>
    ELSE (IF "tags" \in frags[1].keys THEN frags[1].tags ELSE <<>>)
            \o ConcatTags(Tail(frags))

UnionGrp(frags) ==
    UNION {frags[n].grp : n \in {m \in 1..Len(frags) : "grp" \in frags[m].keys}}

LastName(frags) ==
    LET carriers == {n \in 1..Len(frags) : "name" \in frags[n].keys}
    IN  IF carriers = {} THEN <<>>
        ELSE frags[CHOOSE n \in carriers : \A m \in carriers : m <= n].name

\* lists concatenated in order, sets united, the last scalar kept
MergedAttributes(frags) ==
    Obj(UNION {frags[n].keys : n \in 1..Len(frags)},
        LastName(frags), ConcatTags(frags), UnionGrp(frags))

\* C3: after a run in which an identifier absent beforehand received
\* buffered fragments f1..fn, the object stored for it has its lists
\* concatenated over f1..fn in order, its sets united, and each scalar as in
\* the last fragment that carries it.
C3_StoredObjectIsMerge ==
    RunMerged =>
        \A idnumber \in BufferedIds :
            LET key == keypath(<<branchname, importing.subbranchname, idnumber>>)
            IN  (key \notin DOMAIN start /\ OnlyBuffered(idnumber)) =>
                    /\ key \in DOMAIN _nodes
                    /\ _nodes[key] = MergedAttributes(Fragments(idnumber))

\* C4: an import run calls make exactly once for every identifier that has
\* buffered fragments, with the fully merged attributes.
C4_OneMakePerBufferedId ==
    RunMerged =>
        \A idnumber \in BufferedIds :
            LET calls == SelectSeq(makes,
                            LAMBDA c : c.phase = "merging" /\ c.idnumber = idnumber)
            IN  /\ Len(calls) = 1
                /\ calls[1].kwargs = MergedAttributes(Fragments(idnumber))

NoExplicitId(n) == "idnumber" \notin records[n].raw.keys

\* the record went past the preprocessing hook
Kept(n) == records[n].outcome \notin {"skip", "preprocessor_raised"}

\* C6 as stated: the k-th record, in read order, among the records without
\* an explicit identifier is assigned str(k).
C6_KthRecordWithoutId ==
    \A n \in 1..Len(records) :
        (NoExplicitId(n) /\ Kept(n)) =>
            records[n].idnumber
                = str(Cardinality({m \in 1..(n - 1) : NoExplicitId(m)}))

\* C6, amended: the counter starts at 0 in every run, and the k-th record,
\* in read order, among the records that the preprocessing hook does not
\* discard and that carry no explicit identifier is assigned str(k).
C6_KthKeptRecordWithoutId ==
    \A n \in 1..Len(records) :
        (NoExplicitId(n) /\ Kept(n)) =>
            records[n].idnumber
                = str(Cardinality({m \in 1..(n - 1) : NoExplicitId(m) /\ Kept(m)}))

C6_Witness ==
    /\ Len(records) = 3
    /\ \A n \in 1..3 :
        /\ records[n].raw = Kw({"name"}, <<>>, <<"x">>, <<>>, {})
        /\ records[n].outcome = "make"
    /\ <<records[1].idnumber, records[2].idnumber, records[3].idnumber>>
            = <<<<"0">>, <<"1">>, <<"2">>>>

(***************************************************************************)
(* Properties of find_all, checked under FindSpec.                         *)
(***************************************************************************)
\* the objects stored in the subbranch: the payloads of the nodes under its
\* parent key path
StoredObjects(self) ==
    {[key |-> k, data |-> _nodes[k]] : k \in {x \in KeysUnder(self) : ~_nodes[x].none}}

\* the attribute of the object starts with the value, case-insensitively
PrefixMatch(o, q) ==
    /\ q.attribute = "name"
    /\ "name" \in o.data.keys
    /\ startswith(lower(o.data.name), lower(q.value))

\* C11: find_all("attribute: value") returns exactly the objects of the
\* subbranch whose attribute starts with the value, case-insensitively, and
\* None when no object matches.
C11_FindAllExactPrefixMatches ==
    \A q \in Queries :
        (\A o \in StoredObjects(importing) : q.attribute \in o.data.keys) =>
            find_all(importing, q.search_string)
                = Found({o \in StoredObjects(importing) : PrefixMatch(o, q)})

\* find_all returns exactly the prefix matches among the objects that
\* iteration yields, when each of them carries the attribute
FindAllMatchesIterated ==
    \A q \in Queries :
        LET objs == get_objects(importing)
        IN  (objs.raised = "" /\ \A o \in objs.yielded : q.attribute \in o.data.keys) =>
                find_all(importing, q.search_string)
                    = Found({o \in objs.yielded : PrefixMatch(o, q)})

FindAllMatchesIterated_Witness ==
    \E q \in Queries :
        /\ find_all(importing, q.search_string).raised = ""
        /\ Cardinality(find_all(importing, q.search_string).objs) = 2
        /\ Cardinality(get_objects(importing).yielded) = 3

\* C20: when the attribute of the query is absent on some objects of the
\* subbranch, find_all skips them and still returns the matching objects,
\* without raising.
C20_FindAllSkipsAbsentAttribute ==
    \A q \in Queries :
        LET r == find_all(importing, q.search_string)
            objs == get_objects(importing)
        IN  (objs.raised = "" /\ \E o \in objs.yielded : q.attribute \notin o.data.keys) =>
                /\ r.raised = ""
                /\ r = Found({o \in objs.yielded : PrefixMatch(o, q)})

(***************************************************************************)
(* Iteration of a base subbranch, checked under Spec.                      *)
(***************************************************************************)
\* C19: iterating a base subbranch completes without a lookup failure and
\* yields exactly the non-null payloads of the nodes stored under its parent
\* key path; every identifier in idnumbers resolves to a node at
\* branch/subbranch/identifier.
C19_IterationYieldsStoredObjects ==
    \A self \in BaseViews :
        /\ __iter__(self).raised = ""
        /\ \A id \in idnumbers(self) : child_key(self, id) \in DOMAIN _nodes
        /\ __iter__(self).yielded = StoredObjects(self)

\* C12: when the importer has a completion hook, a run that finishes calls
\* it exactly once, after the last call of make and not before; an importer
\* without the hook gets no call, and a run that has not finished has made
\* none.
C12_CompletionHookOnceAfterLastMake ==
    /\ pc = "done" =>
            completed = IF importer.on_import_complete
                        THEN <<Len(makes)>>
                        ELSE <<>>
    /\ pc # "done" => completed = <<>>

C12_Witness ==
    /\ pc = "done"
    /\ importer.on_import_complete
    /\ completed = <<Len(makes)>>
    /\ \E n \in 1..Len(makes) : makes[n].phase = "draining"
    /\ \E n \in 1..Len(makes) : makes[n].phase = "merging"

\* a buffered fragment that the merge loop has reduced holds no list or set
\* any more (lines 145 and 150 delete them)
Merged(item) == \A k \in item.keys : ~is_list(k) /\ ~is_set(k)

PendingItems ==
    {c \in (1..MaxRecords) \X (1..MaxRecords) :
        c[1] <= Len(_temp) /\ c[2] <= Len(_temp[c[1]].items)}

FullyMerged == \A c \in PendingItems : Merged(_temp[c[1]].items[c[2]])

NothingMerged == \A c \in PendingItems : ~Merged(_temp[c[1]].items[c[2]])

\* C14: the phases of a run do not interleave: while records are read no
\* fragment is merged and no make for a buffered identifier is issued, and
\* a make for a buffered identifier is issued only once every identifier's
\* fragment list is fully merged.
C14_PhasesDoNotInterleave ==
    /\ [](pc = "draining" =>
            /\ NothingMerged
            /\ \A n \in 1..Len(makes) : makes[n].phase = "draining")
    /\ [][(Len(makes') > Len(makes) /\ makes'[Len(makes')].phase = "merging")
            => FullyMerged']_vars

\* the nodes that the calls of make of this run created, the call that
\* raised apart
CreatedInRun ==
    {keypath(<<branchname, importing.subbranchname, makes[n].idnumber>>) :
        n \in {m \in 1..Len(makes) :
                /\ ~makes[m].existed
                /\ ~(m = Len(makes) /\ failure = "make")}}

\* C15: once the preprocessing hook, make or the duplicate-resolution hook
\* has raised in a run, no further record is processed, no further make is
\* issued, the completion hook is not called, and every node the run
\* created before is still in the store.
C15_FailureStopsRun ==
    /\ [](failure \in FailingCalls =>
            /\ completed = <<>>
            /\ CreatedInRun \subseteq DOMAIN _nodes)
    /\ [][(failure \in FailingCalls) =>
            UNCHANGED <<records, makes, completed, _nodes>>]_vars

C15_Witness ==
    /\ pc = "failed"
    /\ failure \in {"make", "resolve_duplicate"}
    /\ Len(records) >= 2
    /\ Len(makes) >= 2
    /\ CreatedInRun # {}
    /\ CreatedInRun \subseteq DOMAIN _nodes

\* C16: when the reader returns a context manager, the run acquires the
\* record source once, holds it exactly while records are read, and has
\* released it on every way out of the reading loop: the reader exhausted,
\* the reader raising, or the processing of a record raising.
C16_SourceReleasedOnEveryExit ==
    importer.reader = "context" =>
        /\ pc = "draining" => source = [acquired |-> 1, released |-> 0]
        /\ pc \in {"merging", "complete", "done", "failed"} =>
                source.released = source.acquired
        /\ pc \in {"merging", "complete", "done"} => source.acquired = 1

C16_Witness ==
    /\ importer.reader = "context"
    /\ pc = "failed"
    /\ failure \in FailingCalls
    /\ Len(records) >= 2
    /\ records[Len(records)].outcome \in {"preprocessor_raised", "make_raised"}
    /\ source = [acquired |-> 1, released |-> 1]

IdsOf(temp) == {temp[i].idnumber : i \in 1..Len(temp)}

\* the pending list of idnumber, empty if it has none
ItemsOf(temp, idnumber) ==
    IF idnumber \in IdsOf(temp)
    THEN temp[CHOOSE i \in 1..Len(temp) : temp[i].idnumber = idnumber].items
    ELSE <<>>

\* what the step that processed the newest record did, told from the
\* preprocessed form of that record
RecordOutcome ==
    LET rec == records'[Len(records')]
        kwargs == kwargs_preprocessor(rec.raw)
        attrs == without_idnumber(kwargs)
    IN  IF kwargs.none
        THEN UNCHANGED <<makes, _temp, _index, _nodes>>
        ELSE IF \E k \in kwargs.keys : is_list(k) \/ is_set(k)
        THEN /\ UNCHANGED <<makes, _nodes>>
             /\ IdsOf(_temp') = IdsOf(_temp) \cup {rec.idnumber}
             /\ ItemsOf(_temp', rec.idnumber)
                    = Append(ItemsOf(_temp, rec.idnumber), attrs)
             /\ \A id \in IdsOf(_temp) \ {rec.idnumber} :
                    ItemsOf(_temp', id) = ItemsOf(_temp, id)
        ELSE /\ UNCHANGED _temp
             /\ Len(makes') = Len(makes) + 1
             /\ makes'[Len(makes')].idnumber = rec.idnumber
             /\ makes'[Len(makes')].kwargs = attrs
             /\ makes'[Len(makes')].phase = "draining"

\* C17: while records are read, a record whose preprocessed form is None
\* causes no make, no buffering and uses no sequence number; a record with
\* a list or set value is appended at the end of its identifier's pending
\* list and causes no make; any other record causes one make at once, with
\* its identifier and its attributes.
C17_OneOutcomePerRecord ==
    [][(Len(records') = Len(records) + 1
            /\ records'[Len(records')].outcome # "preprocessor_raised")
        => RecordOutcome]_vars

C17_Witness ==
    /\ Len(records) = 3
    /\ {records[n].outcome : n \in 1..3} = {"skip", "buffer", "make"}
    /\ Len(makes) = 1
    /\ Len(_temp) = 1

\* C18: an identifier assigned from the sequence counter is fresh: it is not
\* in the subbranch when the run starts and no other record of the run
\* supplies it explicitly.
C18_SequenceNumberFresh ==
    \A n \in 1..Len(records) :
        (NoExplicitId(n) /\ Kept(n)) =>
            /\ keypath(<<branchname, importing.subbranchname, records[n].idnumber>>)
                    \notin DOMAIN start
            /\ \A m \in 1..Len(records) :
                    (~NoExplicitId(m) /\ Kept(m)) =>
                        records[m].idnumber # records[n].idnumber

====
